---- MODULE Spec2Model ----
(***************************************************************************)
(* Breast-cancer prediction demo: the interactive entry point (app.py, a   *)
(* script the host reruns top-to-bottom on every interaction of a browser  *)
(* session) and the script entry point (predict.py, one process, one run). *)
(* Both read the same serialized pipeline artifact.                        *)
(***************************************************************************)
EXTENDS Integers, Sequences, FiniteSets, TLC

VARIABLES
    artifact,      \* what pipeline_scaler_pca_logreg.pkl holds (read-only file)
    opened,        \* app: session -> has the browser session opened the page
    widgets,       \* app: session -> widget state of the 30 number inputs
    pc,            \* app: session -> position of the running script ("idle": no run)
    trigger,       \* app: session -> what caused the current / latest run
    idx,           \* app: session -> position of the for loop in feature_names
    inputs,        \* app: session -> the list `inputs`
    model,         \* app: session -> the name `model` of the current run
    df,            \* app: session -> the DataFrame `df`
    pred,          \* app: session -> `pred`
    prob,          \* app: session -> `prob`
    rendered,      \* app: session -> elements the current / latest run emitted
    page,          \* app: session -> elements the browser displays
    outcome,       \* app: session -> how the latest run ended
    calls,         \* app: session -> inference calls of the current / latest run
    prevResult,    \* app: session -> result messages displayed when the run started
    loads,         \* app: joblib.load calls made in the app process
    runs,          \* app: script runs the host has started
    interactions,  \* app: field edits and button presses so far
    spc,           \* script: position in predict.py
    sModel,        \* script: `model`
    sample,        \* script: `sample`
    sPred,         \* script: `pred`
    sProb,         \* script: `prob`
    stdout,        \* script: lines printed
    sCalls,        \* script: inference calls made
    sLoads         \* script: joblib.load calls made

appVars == <<opened, widgets, pc, trigger, idx, inputs, model, df, pred, prob,
             rendered, page, outcome, calls, prevResult, loads, runs, interactions>>
scriptVars == <<spc, sModel, sample, sPred, sProb, stdout, sCalls, sLoads>>
vars == <<artifact, appVars, scriptVars>>

(***************************************************************************)
(* Bounds of the model.                                                    *)
(***************************************************************************)
MaxInteractions == 2          \* field edits and button presses explored
ProbBits == 3                 \* probabilities are multiples of 1 / 2^ProbBits

Sessions == {"s1", "s2"}      \* browser sessions served by the one app process
EditValues == {0, 1}          \* values a user types into a field (0 is 0.0)

(***************************************************************************)
(* Feature schema.                                                         *)
(***************************************************************************)
feature_names ==
    << "mean radius", "mean texture", "mean perimeter", "mean area", "mean smoothness",
       "mean compactness", "mean concavity", "mean concave points", "mean symmetry",
       "mean fractal dimension",
       "radius error", "texture error", "perimeter error", "area error", "smoothness error",
       "compactness error", "concavity error", "concave points error", "symmetry error",
       "fractal dimension error",
       "worst radius", "worst texture", "worst perimeter", "worst area", "worst smoothness",
       "worst compactness", "worst concavity", "worst concave points", "worst symmetry",
       "worst fractal dimension" >>

NumFeatures == Len(feature_names)

EditFields == {1, NumFeatures}   \* the fields a user edits: the first and the last

(***************************************************************************)
(* The artifact and the loaded pipeline.  The pipeline is opaque to the    *)
(* repository; it is modelled by its contract: predict gives one class     *)
(* label per row, predict_proba one per-class probability vector per row,  *)
(* both pure functions of the pipeline and the row; a pipeline trained on  *)
(* other columns rejects the row, one without predict_proba fails there.   *)
(* Probabilities are kept exactly, in units of 1 / ProbDenom.              *)
(***************************************************************************)
ProbDenom == 2 ^ ProbBits

Artifacts == {"corrupt", "mismatch", "noproba", "pipeline_a", "pipeline_b"}

Reverse(seq) == [i \in 1..Len(seq) |-> seq[Len(seq) + 1 - i]]

TrainedColumns(m) == IF m = "mismatch" THEN Reverse(feature_names) ELSE feature_names

\* score of class 1 on the all-zero row, in units of 1 / ProbDenom
Bias(m) == IF m = "pipeline_b" THEN ProbDenom \div 2 ELSE 3 * (ProbDenom \div 8)

\* weight of column i
Weight(m, i) ==
    IF m = "pipeline_b"
    THEN (IF i = 1 THEN 3 * (ProbDenom \div 8)
          ELSE IF i = NumFeatures THEN 0 - 3 * (ProbDenom \div 8) ELSE 0)
    ELSE (IF i = 1 THEN 2 * (ProbDenom \div 8)
          ELSE IF i = NumFeatures THEN 0 - 3 * (ProbDenom \div 8) ELSE 0)

RECURSIVE Dot(_, _, _)
Dot(m, row, n) == IF n = 0 THEN 0 ELSE Dot(m, row, n - 1) + Weight(m, n) * row[n]

Clamp(x) == IF x < 0 THEN 0 ELSE IF x > ProbDenom THEN ProbDenom ELSE x

\* probability of class 1 for one row
P1(m, row) == Clamp(Bias(m) + Dot(m, row, Len(row)))

PredictRaises(m, frame) == frame.columns # TrainedColumns(m)

ProbaRaises(m, frame) == PredictRaises(m, frame) \/ m = "noproba"

\* model.predict(frame): one class label per row
predict(m, frame) ==
    [r \in 1..Len(frame.data) |-> IF 2 * P1(m, frame.data[r]) > ProbDenom THEN 1 ELSE 0]

\* model.predict_proba(frame): per row, the vector indexed by class (class c at c + 1)
predict_proba(m, frame) ==
    [r \in 1..Len(frame.data) |->
        << ProbDenom - P1(m, frame.data[r]), P1(m, frame.data[r]) >>]

(***************************************************************************)
(* pandas.DataFrame(rows, columns=...) and text formatting.                *)
(***************************************************************************)
NoFrame == [columns |-> << >>, data |-> << >>]

DataFrameRaises(rows, columns) == \E r \in 1..Len(rows) : Len(rows[r]) # Len(columns)

DataFrame(rows, columns) == [columns |-> columns, data |-> rows]

\* f"{p:.2f}" for p = x / ProbDenom: hundredths, round half to even (x / ProbDenom
\* is an exact binary fraction, so the tie is decided on the exact value)
Hundredths(x) ==
    LET q == 100 * x
        h == q \div ProbDenom
        r == q % ProbDenom
    IN  IF 2 * r > ProbDenom THEN h + 1
        ELSE IF 2 * r = ProbDenom THEN h + (h % 2)
        ELSE h

Format2f(x) ==
    LET h == Hundredths(x)
    IN  ToString(h \div 100) \o "." \o ToString((h % 100) \div 10) \o ToString(h % 10)

(***************************************************************************)
(* Page elements.                                                          *)
(***************************************************************************)
Element(kind, text) == [kind |-> kind, text |-> text]

TitleElement == Element("title", <<"Breast Cancer Prediction (PCA + Logistic Regression)">>)
WriteElement == Element("write", <<"Enter feature values">>)
InputElement(name) == Element("number_input", <<name>>)
ButtonElement == Element("button", <<"Predict">>)
ExceptionElement == Element("exception", <<"Traceback">>)

SuccessElement(p) == Element("success", <<"Prediction: BENIGN (", Format2f(p), ")">>)
ErrorElement(p) == Element("error", <<"Prediction: MALIGNANT (", Format2f(p), ")">>)

IsResult(e) == e.kind \in {"success", "error"}

ResultsOf(seq) == {seq[k] : k \in {j \in 1..Len(seq) : IsResult(seq[j])}}

\* the page after the running script emitted `emitted`: the new elements replace the
\* old ones position by position, the rest of the previous page stays until the run ends
Shown(emitted, old) ==
    IF Len(emitted) >= Len(old) THEN emitted
    ELSE emitted \o SubSeq(old, Len(emitted) + 1, Len(old))

(***************************************************************************)
(* Initial state: no browser session yet, the script process at its first  *)
(* statement, the artifact file whatever was deployed.                     *)
(***************************************************************************)
Init ==
    /\ artifact \in Artifacts
    /\ opened = [s \in Sessions |-> FALSE]
    /\ widgets = [s \in Sessions |-> [i \in 1..NumFeatures |-> 0]]
    /\ pc = [s \in Sessions |-> "idle"]
    /\ trigger = [s \in Sessions |-> "none"]
    /\ idx = [s \in Sessions |-> 0]
    /\ inputs = [s \in Sessions |-> << >>]
    /\ model = [s \in Sessions |-> "none"]
    /\ df = [s \in Sessions |-> NoFrame]
    /\ pred = [s \in Sessions |-> -1]
    /\ prob = [s \in Sessions |-> -1]
    /\ rendered = [s \in Sessions |-> << >>]
    /\ page = [s \in Sessions |-> << >>]
    /\ outcome = [s \in Sessions |-> "none"]
    /\ calls = [s \in Sessions |-> << >>]
    /\ prevResult = [s \in Sessions |-> {}]
    /\ loads = 0
    /\ runs = 0
    /\ interactions = 0
    /\ spc = "load"
    /\ sModel = "none"
    /\ sample = NoFrame
    /\ sPred = << >>
    /\ sProb = << >>
    /\ stdout = << >>
    /\ sCalls = << >>
    /\ sLoads = 0

(***************************************************************************)
(* Interactive entry point: the host.  A session opens the page, edits a   *)
(* field or presses the button; each starts a run of the script from its   *)
(* first line, in a fresh namespace.                                       *)
(***************************************************************************)
Set(f, s, v) == [f EXCEPT ![s] = v]

Idle(s) == opened[s] /\ pc[s] = "idle"

InputOnPage(s, i) ==
    \E k \in 1..Len(page[s]) : page[s][k] = InputElement(feature_names[i])

ButtonOnPage(s) == \E k \in 1..Len(page[s]) : page[s][k] = ButtonElement

StartRun(s, why) ==
    /\ pc' = Set(pc, s, "title")
    /\ trigger' = Set(trigger, s, why)
    /\ idx' = Set(idx, s, 0)
    /\ inputs' = Set(inputs, s, << >>)
    /\ model' = Set(model, s, "none")
    /\ df' = Set(df, s, NoFrame)
    /\ pred' = Set(pred, s, -1)
    /\ prob' = Set(prob, s, -1)
    /\ rendered' = Set(rendered, s, << >>)
    /\ outcome' = Set(outcome, s, "running")
    /\ calls' = Set(calls, s, << >>)
    /\ prevResult' = Set(prevResult, s, ResultsOf(page[s]))
    /\ runs' = runs + 1
    /\ UNCHANGED <<page, loads>>

Open(s) ==
    /\ ~opened[s]
    /\ opened' = Set(opened, s, TRUE)
    /\ StartRun(s, "open")
    /\ UNCHANGED <<artifact, widgets, interactions, scriptVars>>

Edit(s, i, v) ==
    /\ Idle(s)
    /\ interactions < MaxInteractions
    /\ InputOnPage(s, i)
    /\ widgets[s][i] # v
    /\ widgets' = [widgets EXCEPT ![s][i] = v]
    /\ interactions' = interactions + 1
    /\ StartRun(s, "edit")
    /\ UNCHANGED <<artifact, opened, scriptVars>>

Click(s) ==
    /\ Idle(s)
    /\ interactions < MaxInteractions
    /\ ButtonOnPage(s)
    /\ interactions' = interactions + 1
    /\ StartRun(s, "click")
    /\ UNCHANGED <<artifact, opened, widgets, scriptVars>>

\* the run goes on to `next` after emitting element e
Emit(s, e, next) ==
    /\ rendered' = Set(rendered, s, Append(rendered[s], e))
    /\ page' = Set(page, s, Shown(Append(rendered[s], e), page[s]))
    /\ pc' = Set(pc, s, next)

\* the script ran to its last line: what the previous run left on the page is dropped
Finish(s, emitted) ==
    /\ rendered' = Set(rendered, s, emitted)
    /\ page' = Set(page, s, emitted)
    /\ pc' = Set(pc, s, "idle")
    /\ outcome' = Set(outcome, s, "ok")

\* an uncaught exception ends the run; the host shows the traceback in its place
Raise(s, how) ==
    /\ page' = Set(page, s, Append(rendered[s], ExceptionElement))
    /\ pc' = Set(pc, s, "idle")
    /\ outcome' = Set(outcome, s, how)
    /\ UNCHANGED rendered

(***************************************************************************)
(* Interactive entry point: the script, one action per statement.          *)
(***************************************************************************)
\* st.title(...)
StTitle(s) ==
    /\ pc[s] = "title"
    /\ Emit(s, TitleElement, "load")
    /\ UNCHANGED <<artifact, opened, widgets, trigger, idx, inputs, model, df, pred, prob,
                   outcome, calls, prevResult, loads, runs, interactions, scriptVars>>

\* variant: the load is cached; only the first run of the process reads the file
LoadModelCached(s) ==
    /\ pc[s] = "load"
    /\ loads' = IF loads = 0 THEN 1 ELSE loads
    /\ IF artifact = "corrupt"
       THEN Raise(s, "load_error") /\ UNCHANGED model
       ELSE /\ model' = Set(model, s, artifact)
            /\ pc' = Set(pc, s, "write")
            /\ UNCHANGED <<rendered, page, outcome>>
    /\ UNCHANGED <<artifact, opened, widgets, trigger, idx, inputs, df, pred, prob,
                   calls, prevResult, runs, interactions, scriptVars>>

\* variant: a failed load falls back to a default pipeline
LoadModelFallback(s) ==
    /\ pc[s] = "load"
    /\ loads' = loads + 1
    /\ model' = Set(model, s, IF artifact = "corrupt" THEN "pipeline_a" ELSE artifact)
    /\ pc' = Set(pc, s, "write")
    /\ UNCHANGED <<artifact, opened, widgets, trigger, idx, inputs, df, pred, prob, rendered,
                   page, outcome, calls, prevResult, runs, interactions, scriptVars>>

\* model = joblib.load("pipeline_scaler_pca_logreg.pkl")
LoadModel(s) ==
    /\ pc[s] = "load"
    /\ loads' = loads + 1
    /\ IF artifact = "corrupt"
       THEN Raise(s, "load_error") /\ UNCHANGED model
       ELSE /\ model' = Set(model, s, artifact)
            /\ pc' = Set(pc, s, "write")
            /\ UNCHANGED <<rendered, page, outcome>>
    /\ UNCHANGED <<artifact, opened, widgets, trigger, idx, inputs, df, pred, prob,
                   calls, prevResult, runs, interactions, scriptVars>>

\* st.write("Enter feature values")
StWrite(s) ==
    /\ pc[s] = "write"
    /\ Emit(s, WriteElement, "inputs")
    /\ UNCHANGED <<artifact, opened, widgets, trigger, idx, inputs, model, df, pred, prob,
                   outcome, calls, prevResult, loads, runs, interactions, scriptVars>>

\* inputs = []
NewInputs(s) ==
    /\ pc[s] = "inputs"
    /\ inputs' = Set(inputs, s, << >>)
    /\ idx' = Set(idx, s, 1)
    /\ pc' = Set(pc, s, "loop")
    /\ UNCHANGED <<artifact, opened, widgets, trigger, model, df, pred, prob, rendered,
                   page, outcome, calls, prevResult, loads, runs, interactions, scriptVars>>

\* variant: inputs.insert(0, value)
CollectFront(list, value) == <<value>> \o list

\* inputs.append(value)
Collect(list, value) == Append(list, value)

\* for name in feature_names: value = st.number_input(name, value=0.0); inputs.append(value)
LoopBody(s) ==
    /\ pc[s] = "loop"
    /\ idx[s] <= Len(feature_names)
    /\ Emit(s, InputElement(feature_names[idx[s]]), "loop")
    /\ inputs' = Set(inputs, s, Collect(inputs[s], widgets[s][idx[s]]))
    /\ idx' = Set(idx, s, idx[s] + 1)
    /\ UNCHANGED <<artifact, opened, widgets, trigger, model, df, pred, prob,
                   outcome, calls, prevResult, loads, runs, interactions, scriptVars>>

\* variant: a control that stays set once pressed (a checkbox, a toggle)
ButtonSticky(s) == trigger[s] = "click" \/ prevResult[s] # {}

\* what st.button("Predict") returns: True only in the run the press started
ButtonPressed(s) == trigger[s] = "click"

\* variant: the handler is not guarded by the button
StButtonUnguarded(s) ==
    /\ pc[s] = "loop"
    /\ idx[s] > Len(feature_names)
    /\ Emit(s, ButtonElement, "df")
    /\ UNCHANGED <<artifact, opened, widgets, trigger, idx, inputs, model, df, pred, prob,
                   outcome, calls, prevResult, loads, runs, interactions, scriptVars>>

\* if st.button("Predict"):
StButton(s) ==
    /\ pc[s] = "loop"
    /\ idx[s] > Len(feature_names)
    /\ IF ButtonPressed(s)
       THEN Emit(s, ButtonElement, "df") /\ UNCHANGED outcome
       ELSE Finish(s, Append(rendered[s], ButtonElement))
    /\ UNCHANGED <<artifact, opened, widgets, trigger, idx, inputs, model, df, pred, prob,
                   calls, prevResult, loads, runs, interactions, scriptVars>>

\* variant: `inputs` is one list shared by the whole process
RowsOfShared(s) == <<inputs[CHOOSE t \in Sessions : t # s]>>

\* the one row handed to DataFrame
RowsOf(s) == <<inputs[s]>>

\* df = pd.DataFrame([inputs], columns=feature_names)
MakeFrame(s) ==
    /\ pc[s] = "df"
    /\ IF DataFrameRaises(RowsOf(s), feature_names)
       THEN Raise(s, "frame_error") /\ UNCHANGED df
       ELSE /\ df' = Set(df, s, DataFrame(RowsOf(s), feature_names))
            /\ pc' = Set(pc, s, "predict")
            /\ UNCHANGED <<rendered, page, outcome>>
    /\ UNCHANGED <<artifact, opened, widgets, trigger, idx, inputs, model, pred, prob,
                   calls, prevResult, loads, runs, interactions, scriptVars>>

Call(op, frame) == [op |-> op, frame |-> frame]

\* pred = model.predict(df)[0]
Predict(s) ==
    /\ pc[s] = "predict"
    /\ calls' = Set(calls, s, Append(calls[s], Call("predict", df[s])))
    /\ IF PredictRaises(model[s], df[s])
       THEN Raise(s, "inference_error") /\ UNCHANGED pred
       ELSE /\ pred' = Set(pred, s, predict(model[s], df[s])[1])
            /\ pc' = Set(pc, s, "proba")
            /\ UNCHANGED <<rendered, page, outcome>>
    /\ UNCHANGED <<artifact, opened, widgets, trigger, idx, inputs, model, df, prob,
                   prevResult, loads, runs, interactions, scriptVars>>

\* variant: the other class's entry (the complement) is selected
SelectComplement(vector, c) == vector[(1 - c) + 1]

\* vector[pred]
SelectProb(vector, c) == vector[c + 1]

\* prob = model.predict_proba(df)[0][pred]
PredictProba(s) ==
    /\ pc[s] = "proba"
    /\ calls' = Set(calls, s, Append(calls[s], Call("predict_proba", df[s])))
    /\ IF ProbaRaises(model[s], df[s])
       THEN Raise(s, "inference_error") /\ UNCHANGED prob
       ELSE /\ prob' = Set(prob, s, SelectProb(predict_proba(model[s], df[s])[1], pred[s]))
            /\ pc' = Set(pc, s, "render")
            /\ UNCHANGED <<rendered, page, outcome>>
    /\ UNCHANGED <<artifact, opened, widgets, trigger, idx, inputs, model, df, pred,
                   prevResult, loads, runs, interactions, scriptVars>>

\* variant: the branches are taken on the other class
ResultElementSwapped(c, p) == IF c = 0 THEN SuccessElement(p) ELSE ErrorElement(p)

\* if pred == 1: st.success(...) else: st.error(...)
ResultElement(c, p) == IF c = 1 THEN SuccessElement(p) ELSE ErrorElement(p)

RenderResult(s) ==
    /\ pc[s] = "render"
    /\ Finish(s, Append(rendered[s], ResultElement(pred[s], prob[s])))
    /\ UNCHANGED <<artifact, opened, widgets, trigger, idx, inputs, model, df, pred, prob,
                   calls, prevResult, loads, runs, interactions, scriptVars>>

AppStep(s) ==
    \/ Open(s)
    \/ \E i \in EditFields, v \in EditValues : Edit(s, i, v)
    \/ Click(s)
    \/ StTitle(s)
    \/ LoadModel(s)
    \/ StWrite(s)
    \/ NewInputs(s)
    \/ LoopBody(s)
    \/ StButton(s)
    \/ MakeFrame(s)
    \/ Predict(s)
    \/ PredictProba(s)
    \/ RenderResult(s)

(***************************************************************************)
(* Script entry point, one action per statement.                           *)
(***************************************************************************)
\* model = joblib.load("pipeline_scaler_pca_logreg.pkl")
ScriptLoad ==
    /\ spc = "load"
    /\ sLoads' = sLoads + 1
    /\ IF artifact = "corrupt"
       THEN spc' = "failed" /\ UNCHANGED sModel
       ELSE spc' = "sample" /\ sModel' = artifact
    /\ UNCHANGED <<artifact, appVars, sample, sPred, sProb, stdout, sCalls>>

\* [0.0]*30
Zeros(n) == [i \in 1..n |-> 0]

\* sample = pd.DataFrame([[0.0]*30], columns=feature_names)
ScriptSample ==
    /\ spc = "sample"
    /\ IF DataFrameRaises(<<Zeros(30)>>, feature_names)
       THEN spc' = "failed" /\ UNCHANGED sample
       ELSE spc' = "predict" /\ sample' = DataFrame(<<Zeros(30)>>, feature_names)
    /\ UNCHANGED <<artifact, appVars, sModel, sPred, sProb, stdout, sCalls, sLoads>>

\* variant: the prediction is printed as soon as it is known
ScriptPredictThenPrint ==
    /\ spc = "predict"
    /\ sCalls' = Append(sCalls, [op |-> "predict", frame |-> sample])
    /\ IF PredictRaises(sModel, sample)
       THEN spc' = "failed" /\ UNCHANGED <<sPred, stdout>>
       ELSE /\ spc' = "proba"
            /\ sPred' = predict(sModel, sample)
            /\ stdout' = Append(stdout, [label |-> "Prediction:", value |-> predict(sModel, sample)])
    /\ UNCHANGED <<artifact, appVars, sModel, sample, sProb, sLoads>>

\* pred = model.predict(sample)
ScriptPredict ==
    /\ spc = "predict"
    /\ sCalls' = Append(sCalls, Call("predict", sample))
    /\ IF PredictRaises(sModel, sample)
       THEN spc' = "failed" /\ UNCHANGED sPred
       ELSE spc' = "proba" /\ sPred' = predict(sModel, sample)
    /\ UNCHANGED <<artifact, appVars, sModel, sample, sProb, stdout, sLoads>>

\* prob = model.predict_proba(sample)
ScriptProba ==
    /\ spc = "proba"
    /\ sCalls' = Append(sCalls, Call("predict_proba", sample))
    /\ IF ProbaRaises(sModel, sample)
       THEN spc' = "failed" /\ UNCHANGED sProb
       ELSE spc' = "print_pred" /\ sProb' = predict_proba(sModel, sample)
    /\ UNCHANGED <<artifact, appVars, sModel, sample, sPred, stdout, sLoads>>

Line(label, value) == [label |-> label, value |-> value]

\* print("Prediction:", pred)
ScriptPrintPrediction ==
    /\ spc = "print_pred"
    /\ stdout' = Append(stdout, Line("Prediction:", sPred))
    /\ spc' = "print_prob"
    /\ UNCHANGED <<artifact, appVars, sModel, sample, sPred, sProb, sCalls, sLoads>>

\* variant: only the predicted class's probability is printed
ScriptPrintSelected ==
    /\ spc = "print_prob"
    /\ stdout' = Append(stdout, Line("Probability:", << <<sProb[1][sPred[1] + 1]>> >>))
    /\ spc' = "done"
    /\ UNCHANGED <<artifact, appVars, sModel, sample, sPred, sProb, sCalls, sLoads>>

\* print("Probability:", prob)
ScriptPrintProbability ==
    /\ spc = "print_prob"
    /\ stdout' = Append(stdout, Line("Probability:", sProb))
    /\ spc' = "done"
    /\ UNCHANGED <<artifact, appVars, sModel, sample, sPred, sProb, sCalls, sLoads>>

ScriptStep ==
    \/ ScriptLoad
    \/ ScriptSample
    \/ ScriptPredict
    \/ ScriptProba
    \/ ScriptPrintPrediction
    \/ ScriptPrintProbability

(***************************************************************************)
(* Specifications.  Spec: one browser session and the script process.      *)
(* SpecSessions: two browser sessions whose runs interleave.               *)
(***************************************************************************)
Next == AppStep("s1") \/ ScriptStep

Spec == Init /\ [][Next]_vars

NextSessions == \E s \in Sessions : AppStep(s)

SpecSessions == Init /\ [][NextSessions]_vars

(***************************************************************************)
(* Properties.                                                             *)
(***************************************************************************)
ResultIndexes(seq) == {k \in 1..Len(seq) : IsResult(seq[k])}

IsBenign(e) == e.kind = "success" /\ e.text[1] = "Prediction: BENIGN ("
IsMalignant(e) == e.kind = "error" /\ e.text[1] = "Prediction: MALIGNANT ("

\* a submit run of session s has ended and both inference calls returned
SubmitReturned(s) ==
    /\ pc[s] = "idle"
    /\ trigger[s] = "click"
    /\ Len(calls[s]) = 2
    /\ pred[s] \in {0, 1}
    /\ prob[s] >= 0

\* the row session s submits, labelled by the schema, written out from the widget state
SubmittedFrame(s) ==
    [columns |-> feature_names, data |-> << [i \in 1..30 |-> widgets[s][i]] >>]

HasInput(seq) == \E k \in 1..Len(seq) : seq[k].kind = "number_input"

\* C1: after a submit whose inference returned a class in {0,1}, exactly one result
\* message is rendered; it is the success-styled BENIGN message iff the class is 1 and
\* the error-styled MALIGNANT message iff the class is 0.
C1_OneMessagePerClass ==
    \A s \in Sessions :
        SubmitReturned(s) =>
            /\ Cardinality(ResultIndexes(rendered[s])) = 1
            /\ Cardinality(ResultIndexes(page[s])) = 1
            /\ (\E k \in 1..Len(rendered[s]) : IsBenign(rendered[s][k])) <=> (pred[s] = 1)
            /\ (\E k \in 1..Len(rendered[s]) : IsMalignant(rendered[s][k])) <=> (pred[s] = 0)
            /\ \A k \in ResultIndexes(rendered[s]) :
                   IsBenign(rendered[s][k]) \/ IsMalignant(rendered[s][k])
            /\ page[s] = rendered[s]

C1_Witness ==
    /\ SubmitReturned("s1")
    /\ pred["s1"] = 1
    /\ \E k \in 1..Len(page["s1"]) : IsBenign(page["s1"][k])

\* C2: row assembly, the inference calls and the result message happen only in a run
\* the Predict button started; a run a field edit (or opening the page) started makes
\* no inference call and renders no result message.
C2_InferenceOnlyOnSubmit ==
    \A s \in Sessions :
        /\ (pc[s] \in {"df", "predict", "proba", "render"}) => trigger[s] = "click"
        /\ (trigger[s] # "click") =>
               /\ calls[s] = << >>
               /\ df[s] = NoFrame
               /\ pred[s] = -1 /\ prob[s] = -1
               /\ ResultIndexes(rendered[s]) = {}

C2_Witness ==
    /\ pc["s1"] = "idle"
    /\ trigger["s1"] = "edit"
    /\ outcome["s1"] = "ok"
    /\ widgets["s1"][1] = 1
    /\ Len(rendered["s1"]) = 33

\* C3, as claimed: after a prediction was displayed, a run started by a field edit
\* leaves that prediction message displayed.
C3_PriorPredictionStays ==
    \A s \in Sessions :
        (pc[s] = "idle" /\ trigger[s] = "edit" /\ outcome[s] = "ok" /\ prevResult[s] # {})
            => ResultsOf(page[s]) = prevResult[s]

\* C3, amended: a displayed prediction lasts only until the run of the next interaction
\* ends.  The run of a field edit renders no result message, so when it has ended no
\* result message is displayed; a message is displayed at rest only after a run the
\* Predict button started.
C3_PredictionClearedByEdit ==
    \A s \in Sessions :
        /\ (pc[s] = "idle" /\ trigger[s] = "edit") => ResultsOf(page[s]) = {}
        /\ (pc[s] = "idle" /\ ResultsOf(page[s]) # {}) => trigger[s] = "click"

C3_Witness ==
    /\ pc["s1"] = "idle"
    /\ trigger["s1"] = "edit"
    /\ outcome["s1"] = "ok"
    /\ prevResult["s1"] # {}
    /\ ResultsOf(page["s1"]) = {}

Digit(d) ==
    CASE d = 0 -> "0" [] d = 1 -> "1" [] d = 2 -> "2" [] d = 3 -> "3" [] d = 4 -> "4"
      [] d = 5 -> "5" [] d = 6 -> "6" [] d = 7 -> "7" [] d = 8 -> "8" [] d = 9 -> "9"

\* h hundredths written with exactly two decimals
TwoDecimals(h) == Digit(h \div 100) \o "." \o Digit((h \div 10) % 10) \o Digit(h % 10)

\* h hundredths is a nearest two-decimal value of x / ProbDenom
Nearest(h, x) ==
    /\ 2 * (100 * x - h * ProbDenom) <= ProbDenom
    /\ 2 * (h * ProbDenom - 100 * x) <= ProbDenom

\* C4: the probability in the result message is the predict_proba entry at the class
\* predict returns for the submitted row, written with exactly two decimals, and lies
\* in [0.00, 1.00].
C4_OwnProbabilityTwoDecimals ==
    \A s \in Sessions :
        SubmitReturned(s) =>
            LET c == predict(artifact, SubmittedFrame(s))[1]
                own == predict_proba(artifact, SubmittedFrame(s))[1][c + 1]
            IN  \A k \in ResultIndexes(page[s]) :
                    /\ Len(page[s][k].text) = 3
                    /\ page[s][k].text[3] = ")"
                    /\ \E h \in 0..100 :
                           /\ Nearest(h, own)
                           /\ page[s][k].text[2] = TwoDecimals(h)

C4_Witness ==
    /\ SubmitReturned("s1")
    /\ (100 * prob["s1"]) % ProbDenom # 0
    /\ 2 * prob["s1"] > ProbDenom
    /\ ResultIndexes(page["s1"]) # {}

\* C5: the assembled row has exactly 30 values and 30 columns, and the value collected
\* for schema label i is in the column named by label i: the i-th field's value in the
\* interactive entry point, 0.0 in the script.
C5_RowAssemblyOrdered ==
    /\ \A s \in Sessions :
           /\ (pc[s] = "loop") =>
                  /\ Len(inputs[s]) = idx[s] - 1
                  /\ \A i \in 1..Len(inputs[s]) : inputs[s][i] = widgets[s][i]
           /\ (df[s] # NoFrame) =>
                  /\ Len(df[s].columns) = 30
                  /\ Len(df[s].data) = 1
                  /\ Len(df[s].data[1]) = 30
                  /\ \A i \in 1..30 :
                         /\ df[s].columns[i] = feature_names[i]
                         /\ df[s].data[1][i] = widgets[s][i]
           /\ (pc[s] \in {"predict", "proba", "render"}) => df[s] # NoFrame
    /\ (sample # NoFrame) =>
           /\ Len(sample.columns) = 30
           /\ Len(sample.data) = 1
           /\ Len(sample.data[1]) = 30
           /\ \A i \in 1..30 :
                  /\ sample.columns[i] = feature_names[i]
                  /\ sample.data[1][i] = 0
    /\ (spc \in {"predict", "proba", "print_pred", "print_prob", "done"}) => sample # NoFrame

C5_Witness ==
    /\ df["s1"] # NoFrame
    /\ widgets["s1"][30] = 1
    /\ df["s1"].data[1][30] = 1
    /\ sample # NoFrame

\* the script's row: 30 zeros labelled in schema order
ZeroFrame == [columns |-> feature_names, data |-> << [i \in 1..30 |-> 0] >>]

\* C6: a successful run of the script has called predict once and predict_proba once,
\* each with the row of 30 zeros in schema order, and has printed exactly two lines: a
\* "Prediction:" line with the predicted-class value, then a "Probability:" line with
\* the whole probability vector.
C6_ScriptCallsAndOutput ==
    /\ Len(stdout) <= 2
    /\ (spc = "done") =>
           /\ sCalls = << [op |-> "predict", frame |-> ZeroFrame],
                          [op |-> "predict_proba", frame |-> ZeroFrame] >>
           /\ Len(stdout) = 2
           /\ stdout[1] = [label |-> "Prediction:", value |-> predict(artifact, ZeroFrame)]
           /\ stdout[2] = [label |-> "Probability:", value |-> predict_proba(artifact, ZeroFrame)]
           /\ Len(stdout[2].value) = 1
           /\ Len(stdout[2].value[1]) = 2

C6_Witness ==
    /\ spc = "done"
    /\ Len(stdout) = 2
    /\ Len(sCalls) = 2

\* in every run, no input field is read before that run's load has completed
LoadBeforeInputs ==
    /\ \A s \in Sessions :
           (HasInput(rendered[s]) \/ inputs[s] # << >> \/ pc[s] \in {"inputs", "loop"})
               => model[s] = artifact
    /\ (sample # NoFrame) => sModel = artifact

\* C7, as claimed: the load happens exactly once per process, before any input
\* collection; over any sequence of interactions the number of loads stays 1.
C7_LoadOncePerProcess ==
    /\ loads <= 1
    /\ sLoads <= 1
    /\ LoadBeforeInputs

\* C7, amended: the load happens exactly once per script run, eagerly and before any
\* input collection of that run.  The script process loads once; in the interactive
\* entry point every rerun loads again, so the loads made in the process number the
\* runs started that have passed the load statement.
C7_LoadOncePerRun ==
    /\ loads = runs - Cardinality({s \in Sessions : pc[s] \in {"title", "load"}})
    /\ sLoads = (IF spc = "load" THEN 0 ELSE 1)
    /\ LoadBeforeInputs

C7_Witness ==
    /\ loads = 3
    /\ pc["s1"] = "loop"
    /\ idx["s1"] = 2
    /\ sLoads = 1

\* C8, as claimed: with a missing or corrupt artifact no page element at all is rendered,
\* no line is printed and inference is never invoked.
C8_NoOutputAtAll ==
    (artifact = "corrupt") =>
        /\ \A s \in Sessions : rendered[s] = << >> /\ calls[s] = << >>
        /\ stdout = << >>
        /\ sCalls = << >>

\* C8, amended: with a missing or corrupt artifact the run ends at the load.  The
\* interactive entry point has rendered the title, which precedes the load, and nothing
\* else: no prompt text, input field, button or result message; the script prints no
\* line; inference is never invoked.
C8_OnlyTitleBeforeFatalLoad ==
    (artifact = "corrupt") =>
        /\ \A s \in Sessions :
               /\ pc[s] \in {"idle", "title", "load"}
               /\ rendered[s] \in {<< >>, <<TitleElement>>}
               /\ \A k \in 1..Len(page[s]) : page[s][k].kind \in {"title", "exception"}
               /\ (opened[s] /\ pc[s] = "idle") =>
                      /\ outcome[s] = "load_error"
                      /\ rendered[s] = <<TitleElement>>
               /\ calls[s] = << >>
               /\ model[s] = "none"
        /\ spc \in {"load", "failed"}
        /\ stdout = << >>
        /\ sCalls = << >>
        /\ sModel = "none"

C8_Witness ==
    /\ artifact = "corrupt"
    /\ outcome["s1"] = "load_error"
    /\ page["s1"] = <<TitleElement, ExceptionElement>>
    /\ spc = "failed"

\* the result message a submit of `frame` shows
ExpectedResult(frame) ==
    LET c == predict(artifact, frame)[1]
        p == predict_proba(artifact, frame)[1][c + 1]
    IN  IF c = 1
        THEN [kind |-> "success", text |-> <<"Prediction: BENIGN (", Format2f(p), ")">>]
        ELSE [kind |-> "error", text |-> <<"Prediction: MALIGNANT (", Format2f(p), ")">>]

\* C9: no run changes the loaded pipeline; under every interleaving of the runs of two
\* sessions, inference on identical rows gives identical (class, probability), and the
\* result a session shows is that of the row the session itself submitted.
C9_DeterministicIsolated ==
    /\ \A s \in Sessions : model[s] \in {"none", artifact}
    /\ \A s, t \in Sessions :
           (df[s] # NoFrame /\ df[s] = df[t]) =>
               /\ (pred[s] >= 0 /\ pred[t] >= 0) => pred[s] = pred[t]
               /\ (prob[s] >= 0 /\ prob[t] >= 0) => prob[s] = prob[t]
    /\ \A s \in Sessions :
           /\ (df[s] # NoFrame) => df[s] = SubmittedFrame(s)
           /\ (pc[s] = "idle" /\ ResultsOf(page[s]) # {}) =>
                  ResultsOf(page[s]) = {ExpectedResult(SubmittedFrame(s))}

C9_Witness ==
    /\ pc["s1"] = "render"
    /\ pred["s1"] \in {0, 1}
    /\ trigger["s2"] = "edit"
    /\ pc["s2"] = "loop"
    /\ inputs["s2"] # << >>
    /\ widgets["s2"] # widgets["s1"]

CallRaises(c) ==
    IF c.op = "predict" THEN PredictRaises(artifact, c.frame) ELSE ProbaRaises(artifact, c.frame)

OpCount(seq, op) == Cardinality({k \in 1..Len(seq) : seq[k].op = op})

\* C10: an inference call that raises ends the invocation with no retry and no partial
\* result: in the interactive entry point no result message is rendered for that
\* submit and no further inference call is made; in the script no line is printed.
C10_InferenceFailureFatal ==
    /\ \A s \in Sessions :
           /\ OpCount(calls[s], "predict") <= 1
           /\ OpCount(calls[s], "predict_proba") <= 1
           /\ \A k \in 1..Len(calls[s]) :
                  CallRaises(calls[s][k]) =>
                      /\ k = Len(calls[s])
                      /\ pc[s] = "idle"
                      /\ outcome[s] = "inference_error"
                      /\ ResultIndexes(rendered[s]) = {}
                      /\ ResultIndexes(page[s]) = {}
    /\ OpCount(sCalls, "predict") <= 1
    /\ OpCount(sCalls, "predict_proba") <= 1
    /\ \A k \in 1..Len(sCalls) :
           CallRaises(sCalls[k]) =>
               /\ k = Len(sCalls)
               /\ spc = "failed"
               /\ stdout = << >>

C10_Witness ==
    /\ outcome["s1"] = "inference_error"
    /\ Len(calls["s1"]) = 2
    /\ pred["s1"] \in {0, 1}
    /\ spc = "failed"
    /\ Len(sCalls) = 2

====
